---- MODULE Spec2Model ----
(***************************************************************************)
(* backtrader/timer.py: the Timer trigger evaluator.                       *)
(*                                                                         *)
(* Time is discrete.  A timestamp (the float `dt` of the source) is a      *)
(* number of ticks since the epoch, in UTC; a naive datetime is a number   *)
(* of ticks too, a date a number of days, a time-of-day a number of ticks  *)
(* below TicksPerDay.  The calendar is scaled down: a month has            *)
(* DaysPerMonth days and a year MonthsPerYear months, a week DaysPerWeek   *)
(* days and a year WeeksPerYear ISO weeks.  As in the source the period    *)
(* keys are the month NUMBER (date.month) and the ISO week NUMBER          *)
(* (date.isocalendar()[1]), which repeat every year.                       *)
(***************************************************************************)
EXTENDS Integers, Sequences, FiniteSets, TLC

\* ------------------------------------------------------------ bounds
TicksPerDay == 3
NumDays == 7
DaysPerMonth == 3
MonthsPerYear == 2
DaysPerWeek == 2
WeeksPerYear == 2
\* the wall clock of the ResetTimer runs from 0 to MaxNow
MaxNow == 4

MaxT == NumDays * TicksPerDay - 1
Dates == 0 .. (NumDays - 1)
Times == 0 .. (TicksPerDay - 1)

\* configurations the specifications draw from
Offsets == {0, 1}
Repeats == {0, 1, 2}
TzOffsets == {0, 1}

\* ------------------------------------------------------------ constants
SESSION_TIME == 0
SESSION_START == 1
SESSION_END == 2
\* datetime.min / date.min: before every date and instant of the model
DatetimeMin == -1
DateMin == -1
\* TIME_MAX, the last instant of a calendar day
TIME_MAX == TicksPerDay - 1
\* ResetTimer.params cycle_mult
cycle_mult == 2

\* Optional values: <<>> is None, <<v>> is the value v
None == <<>>
Some(v) == <<v>>

VARIABLES
    p,          \* self.p: the timer's parameters (immutable)
    feed,       \* the data feed passed to start(): session times and timezone
    pc,         \* "new" (constructed), "started", "failed" (start raised)
    rstwhen,    \* self._rstwhen
    tzdata,     \* self._tzdata: "None", "tz" (a pytz timezone) or "data"
    isdata,     \* self._isdata
    when,       \* self._when
    dtwhen,     \* self._dtwhen (Optional timestamp)
    dwhen,      \* self._dwhen (Optional naive datetime)
    lastcall,   \* self._lastcall
    nexteos,    \* self._nexteos
    curdate,    \* self._curdate
    curmonth,   \* self._curmonth
    monthmask,  \* self._monthmask
    curweek,    \* self._curweek
    weekmask,   \* self._weekmask
    lastwhen,   \* self.lastwhen (Optional naive datetime)
    dt,         \* the timestamp of the latest check call (-1: none yet)
    ret,        \* the latest check: "none", "True", "False", "raised"
    obs,        \* observations of the run (history, not program state)
    hist,       \* what the traced driver writes down about each check call
    rt          \* a ResetTimer: its reset flag, its watchdog and its clock

vars == <<p, feed, pc, rstwhen, tzdata, isdata, when, dtwhen, dwhen, lastcall,
          nexteos, curdate, curmonth, monthmask, curweek, weekmask, lastwhen,
          dt, ret, obs, hist, rt>>

Self ==
    [rstwhen |-> rstwhen, tzdata |-> tzdata, isdata |-> isdata, when |-> when,
     dtwhen |-> dtwhen, dwhen |-> dwhen, lastcall |-> lastcall,
     nexteos |-> nexteos, curdate |-> curdate, curmonth |-> curmonth,
     monthmask |-> monthmask, curweek |-> curweek, weekmask |-> weekmask,
     lastwhen |-> lastwhen]

\* ------------------------------------------------------------ calendar
\* d.date() of a naive datetime, datetime.combine(date, time)
DateOf(d) == d \div TicksPerDay
combine(ddate, t) == ddate * TicksPerDay + t
\* ddate.month and ddate.day
MonthOf(ddate) == ((ddate \div DaysPerMonth) % MonthsPerYear) + 1
DayOf(ddate) == (ddate % DaysPerMonth) + 1
\* ddate.isocalendar(): the ISO week number and the weekday
WeekOf(ddate) == ((ddate \div DaysPerWeek) % WeeksPerYear) + 1
WeekdayOf(ddate) == (ddate % DaysPerWeek) + 1

\* ------------------------------------------------------------ time source
\* The utc offset of the time source self._tzdata: none for None, the
\* zone's for a pytz timezone, the feed's own for a data feed.
TzOff(s) == IF s.tzdata = "None" THEN 0 ELSE feed.tz

\* date2num(dt, tz): localize the naive datetime in tz, return the utc
\* timestamp; num2date(x, tz): the naive local datetime of a utc timestamp.
date2num(x, off) == x - off
num2date(x, off) == x + off

\* data._getnexteos(): the first end of session at or after the feed's
\* current bar, which is the bar the timer is checked with.
RECURSIVE nexteos_loop(_, _)
nexteos_loop(dtime, eos) ==
    IF dtime > eos THEN nexteos_loop(dtime, eos + TicksPerDay) ELSE eos

getnexteos(d) ==
    nexteos_loop(d, num2date(date2num(combine(DateOf(d), feed.sessionend), feed.tz), 0))

\* ------------------------------------------------------------ bisect, deque
RECURSIVE bisect_left_loop(_, _, _, _)
bisect_left_loop(a, x, lo, hi) ==
    IF lo < hi
    THEN LET mid == (lo + hi) \div 2
         IN IF a[mid + 1] < x
            THEN bisect_left_loop(a, x, mid + 1, hi)
            ELSE bisect_left_loop(a, x, lo, mid)
    ELSE lo

bisect_left(a, x) == bisect_left_loop(a, x, 0, Len(a))

RECURSIVE bisect_right_loop(_, _, _, _)
bisect_right_loop(a, x, lo, hi) ==
    IF lo < hi
    THEN LET mid == (lo + hi) \div 2
         IN IF x < a[mid + 1]
            THEN bisect_right_loop(a, x, lo, mid)
            ELSE bisect_right_loop(a, x, mid + 1, hi)
    ELSE lo

bisect_right(a, x, lo) == bisect_right_loop(a, x, lo, Len(a))

\* while dc: mask.popleft(); dc -= 1
RECURSIVE popleft_n(_, _)
popleft_n(mask, dc) == IF dc = 0 THEN mask ELSE popleft_n(Tail(mask), dc - 1)

\* ------------------------------------------------------------ Timer
\* _reset_when that forgets to write down the date
reset_when_unmarked(s, ddate) ==
    [s EXCEPT !.when = s.rstwhen, !.dtwhen = None, !.dwhen = None,
              !.lastcall = DatetimeMin]

\* _reset_when(ddate): ddate defaults to datetime.min
reset_when(s, ddate) ==
    [s EXCEPT !.when = s.rstwhen, !.dtwhen = None, !.dwhen = None,
              !.lastcall = ddate]

\* bool(deque)
truthy(mask) == Len(mask) > 0

\* _check_month that carries at every month change, whatever the old mask held
check_month_carryalways(s, ddate) ==
    IF ~truthy(p.monthdays)
    THEN [s |-> s, ret |-> TRUE, carry |-> FALSE]
    ELSE LET dmonth == MonthOf(ddate)
             newmonth == dmonth # s.curmonth
             carry0 == IF newmonth THEN p.monthcarry ELSE FALSE
             mask == IF newmonth THEN p.monthdays ELSE s.monthmask
             dday == DayOf(ddate)
             dc == bisect_left(mask, dday)
             daycarry == carry0 \/ (p.monthcarry /\ dc > 0)
             curday == IF dc < Len(mask) THEN bisect_right(mask, dday, dc) > 0 ELSE FALSE
             dc2 == IF dc < Len(mask) /\ curday THEN dc + 1 ELSE dc
         IN [s |-> [s EXCEPT !.curmonth = dmonth, !.monthmask = popleft_n(mask, dc2)],
             ret |-> daycarry \/ curday, carry |-> daycarry]

\* _check_month that keeps the old mask when the month changes
check_month_noreset(s, ddate) ==
    IF ~truthy(p.monthdays)
    THEN [s |-> s, ret |-> TRUE, carry |-> FALSE]
    ELSE LET dmonth == MonthOf(ddate)
             newmonth == dmonth # s.curmonth
             carry0 == IF newmonth THEN p.monthcarry /\ truthy(s.monthmask) ELSE FALSE
             mask == s.monthmask
             dday == DayOf(ddate)
             dc == bisect_left(mask, dday)
             daycarry == carry0 \/ (p.monthcarry /\ dc > 0)
             curday == IF dc < Len(mask) THEN bisect_right(mask, dday, dc) > 0 ELSE FALSE
             dc2 == IF dc < Len(mask) /\ curday THEN dc + 1 ELSE dc
         IN [s |-> [s EXCEPT !.curmonth = dmonth, !.monthmask = popleft_n(mask, dc2)],
             ret |-> daycarry \/ curday, carry |-> daycarry]

\* _check_month(ddate): the timer after the call and the value returned
check_month(s, ddate) ==
    IF ~truthy(p.monthdays)
    THEN [s |-> s, ret |-> TRUE, carry |-> FALSE]
    ELSE LET dmonth == MonthOf(ddate)
             newmonth == dmonth # s.curmonth
             carry0 == IF newmonth THEN p.monthcarry /\ truthy(s.monthmask) ELSE FALSE
             mask == IF newmonth THEN p.monthdays ELSE s.monthmask
             dday == DayOf(ddate)
             dc == bisect_left(mask, dday)
             daycarry == carry0 \/ (p.monthcarry /\ dc > 0)
             curday == IF dc < Len(mask) THEN bisect_right(mask, dday, dc) > 0 ELSE FALSE
             dc2 == IF dc < Len(mask) /\ curday THEN dc + 1 ELSE dc
         IN [s |-> [s EXCEPT !.curmonth = dmonth, !.monthmask = popleft_n(mask, dc2)],
             ret |-> daycarry \/ curday, carry |-> daycarry]

\* _check_week(ddate)
check_week(s, ddate) ==
    IF ~truthy(p.weekdays)
    THEN [s |-> s, ret |-> TRUE, carry |-> FALSE]
    ELSE LET dweek == WeekOf(ddate)
             dwkday == WeekdayOf(ddate)
             newweek == dweek # s.curweek
             carry0 == IF newweek THEN p.weekcarry /\ truthy(s.weekmask) ELSE FALSE
             mask == IF newweek THEN p.weekdays ELSE s.weekmask
             dc == bisect_left(mask, dwkday)
             daycarry == carry0 \/ (p.weekcarry /\ dc > 0)
             curday == IF dc < Len(mask) THEN bisect_right(mask, dwkday, dc) > 0 ELSE FALSE
             dc2 == IF dc < Len(mask) /\ curday THEN dc + 1 ELSE dc
         IN [s |-> [s EXCEPT !.curweek = dweek, !.weekmask = popleft_n(mask, dc2)],
             ret |-> daycarry \/ curday, carry |-> daycarry]

\* self.p.allow(ddate): p.allow is None or Some(the set of dates allowed)
allow(ddate) == ddate \in p.allow[1]

\* an end of session that is the first instant of the day when no feed gives it
eos_for_daystart(s, d, ddate) ==
    IF s.isdata THEN getnexteos(d) ELSE combine(ddate, 0)

\* check, lines 161-167 and 204-212: the end of session for d
eos_for(s, d, ddate) ==
    IF s.isdata THEN getnexteos(d) ELSE combine(ddate, TIME_MAX)

\* a session rollover that writes down the date seen last instead of "never"
session_rollover_keepdate(s, d, ddate) ==
    IF d > s.nexteos
    THEN reset_when([s EXCEPT !.nexteos = eos_for(s, d, ddate)], s.curdate)
    ELSE s

\* check, lines 161-167: the session rollover
session_rollover(s, d, ddate) ==
    IF d > s.nexteos
    THEN reset_when([s EXCEPT !.nexteos = eos_for(s, d, ddate)], DatetimeMin)
    ELSE s

\* a date rollover that evaluates the week filter whatever the month filter said
day_change_eager(s, ddate) ==
    IF ddate > s.curdate
    THEN LET s0 == [s EXCEPT !.curdate = ddate]
             m == check_month(s0, ddate)
             w == check_week(m.s, ddate)
             doallow == m.ret /\ w.ret /\ p.allow # None
             r == IF doallow THEN allow(ddate) ELSE m.ret /\ w.ret
         IN [s |-> IF r THEN w.s ELSE reset_when(w.s, ddate),
             pass |-> r,
             mret |-> Some(m.ret),
             wret |-> Some(w.ret),
             aret |-> IF doallow THEN Some(r) ELSE None,
             mcarry |-> m.carry, wcarry |-> w.carry]
    ELSE [s |-> s, pass |-> TRUE, mret |-> None, wret |-> None, aret |-> None,
          mcarry |-> FALSE, wcarry |-> FALSE]

\* a date rollover that does not write down the rejected date
day_change_unmarked(s, ddate) ==
    IF ddate > s.curdate
    THEN LET s0 == [s EXCEPT !.curdate = ddate]
             m == check_month(s0, ddate)
             w == IF m.ret THEN check_week(m.s, ddate)
                  ELSE [s |-> m.s, ret |-> FALSE, carry |-> FALSE]
             doallow == w.ret /\ p.allow # None
             r == IF doallow THEN allow(ddate) ELSE w.ret
         IN [s |-> w.s,
             pass |-> r,
             mret |-> Some(m.ret),
             wret |-> IF m.ret THEN Some(w.ret) ELSE None,
             aret |-> IF doallow THEN Some(r) ELSE None,
             mcarry |-> m.carry, wcarry |-> w.carry]
    ELSE [s |-> s, pass |-> TRUE, mret |-> None, wret |-> None, aret |-> None,
          mcarry |-> FALSE, wcarry |-> FALSE]

\* check, lines 169-179: the date rollover and its filters.  mret, wret and
\* aret are what the month filter, the week filter and the allow predicate
\* returned (None when not evaluated), mcarry and wcarry the daycarry flag
\* of the two filters; pass is FALSE when check returns at line 179.
day_change(s, ddate) ==
    IF ddate > s.curdate
    THEN LET s0 == [s EXCEPT !.curdate = ddate]
             m == check_month(s0, ddate)
             w == IF m.ret THEN check_week(m.s, ddate)
                  ELSE [s |-> m.s, ret |-> FALSE, carry |-> FALSE]
             doallow == w.ret /\ p.allow # None
             r == IF doallow THEN allow(ddate) ELSE w.ret
         IN [s |-> IF r THEN w.s ELSE reset_when(w.s, ddate),
             pass |-> r,
             mret |-> Some(m.ret),
             wret |-> IF m.ret THEN Some(w.ret) ELSE None,
             aret |-> IF doallow THEN Some(r) ELSE None,
             mcarry |-> m.carry, wcarry |-> w.carry]
    ELSE [s |-> s, pass |-> TRUE, mret |-> None, wret |-> None, aret |-> None,
          mcarry |-> FALSE, wcarry |-> FALSE]

\* check, lines 182-194: the trigger instant, computed unless cached
resolve_when(s, ddate) ==
    IF s.dtwhen = None
    THEN LET dw0 == combine(ddate, s.when)
             dw == IF p.offset # 0 THEN dw0 + p.offset ELSE dw0
         IN [s EXCEPT !.dwhen = Some(dw), !.dtwhen = Some(date2num(dw, TzOff(s)))]
    ELSE s

\* a repeat advancement that stops at the current datetime, not after it
RECURSIVE repeat_loop_inclusive(_, _, _, _, _)
repeat_loop_inclusive(s, dw, eos, d, ddate) ==
    LET dw2 == dw + p.repeat
    IN IF dw2 > eos
       THEN reset_when(s, ddate)
       ELSE IF dw2 >= d
            THEN LET dtw == date2num(dw2, 0)
                 IN [s EXCEPT !.dtwhen = Some(dtw),
                              !.dwhen = Some(num2date(dtw, TzOff(s)))]
            ELSE repeat_loop_inclusive(s, dw2, eos, d, ddate)

\* a repeat advancement that gives up without writing down the date
RECURSIVE repeat_loop_unmarked(_, _, _, _, _)
repeat_loop_unmarked(s, dw, eos, d, ddate) ==
    LET dw2 == dw + p.repeat
    IN IF dw2 > eos
       THEN reset_when(s, DatetimeMin)
       ELSE IF dw2 > d
            THEN LET dtw == date2num(dw2, 0)
                 IN [s EXCEPT !.dtwhen = Some(dtw),
                              !.dwhen = Some(num2date(dtw, TzOff(s)))]
            ELSE repeat_loop_unmarked(s, dw2, eos, d, ddate)

\* check, lines 214-228: the repeat advancement
RECURSIVE repeat_loop(_, _, _, _, _)
repeat_loop(s, dw, eos, d, ddate) ==
    LET dw2 == dw + p.repeat
    IN IF dw2 > eos
       THEN reset_when(s, ddate)
       ELSE IF dw2 > d
            THEN LET dtw == date2num(dw2, 0)
                 IN [s EXCEPT !.dtwhen = Some(dtw),
                              !.dwhen = Some(num2date(dtw, TzOff(s)))]
            ELSE repeat_loop(s, dw2, eos, d, ddate)

\* check, lines 199-228: the timer fires
fire(s, d, ddate) ==
    LET s1 == [s EXCEPT !.lastwhen = s.dwhen]
    IN IF p.repeat = 0
       THEN reset_when(s1, ddate)
       ELSE LET s2 == IF d > s1.nexteos
                      THEN [s1 EXCEPT !.nexteos = eos_for(s1, d, ddate)]
                      ELSE s1
            IN repeat_loop(s2, s.dwhen[1], s2.nexteos, d, ddate)

\* a lookup that puts the end of the calendar day in place of the answer the
\* feed failed to give
eos_lookup_assumed(s, d, ddate, ok) ==
    IF s.isdata /\ ~ok THEN Some(combine(ddate, TIME_MAX))
    ELSE Some(eos_for(s, d, ddate))

\* check, lines 162-165 and 205-208: the end of session for d, None when the
\* feed's _getnexteos() raises (ok: the feed answers during this call)
eos_lookup(s, d, ddate, ok) ==
    IF s.isdata /\ ~ok THEN None ELSE Some(eos_for(s, d, ddate))

\* dwhen += self.p.repeat, line 215: None when the sum leaves the range of
\* datetime (OverflowError)
add_repeat(dw) ==
    IF dw + p.repeat < DatetimeMin THEN None ELSE Some(dw + p.repeat)

\* check, lines 214-228: the number of additions after which the loop breaks,
\* None when an addition raises first
RECURSIVE repeat_loop_count(_, _, _, _)
repeat_loop_count(dw, eos, d, n) ==
    LET dw2 == add_repeat(dw)
    IN IF dw2 = None THEN None
       ELSE IF dw2[1] > eos \/ dw2[1] > d THEN Some(n + 1)
       ELSE repeat_loop_count(dw2[1], eos, d, n + 1)

\* check(dt) is translated in three stages, each handing a record to the
\* next: s is the timer so far and stop how far the call got: "early" (the
\* return of line 159), "lookup" (_getnexteos() raised), "veto" (the return
\* of line 179), "wait" (the return of line 197), "overflow" (line 215
\* raised), "fired" (the return of line 230).  lookups counts the ends of
\* session computed or asked for, needed is whether d passed the cached end
\* of session at line 161; ok is whether the feed answers during the call.
no_filters ==
    [mret |-> None, wret |-> None, aret |-> None,
     mcarry |-> FALSE, wcarry |-> FALSE]

\* what the date rollover came to, as a stage of check
after_day_change(dc, n) ==
    [stop |-> IF dc.pass THEN "go" ELSE "veto", s |-> dc.s,
     lookups |-> n, needed |-> n > 0,
     mret |-> dc.mret, wret |-> dc.wret, aret |-> dc.aret,
     mcarry |-> dc.mcarry, wcarry |-> dc.wcarry]

\* check, lines 155-179: the early return, the session rollover and the
\* date rollover
check_rollovers(s, t, ok) ==
    LET d == num2date(t, 0)
        ddate == DateOf(d)
    IN IF s.lastcall = ddate
       THEN [stop |-> "early", s |-> s, lookups |-> 0, needed |-> FALSE]
            @@ no_filters
       ELSE IF d > s.nexteos /\ eos_lookup(s, d, ddate, ok) = None
       THEN [stop |-> "lookup", s |-> s, lookups |-> 1, needed |-> TRUE]
            @@ no_filters
       ELSE after_day_change(day_change(session_rollover(s, d, ddate), ddate),
                             IF d > s.nexteos THEN 1 ELSE 0)

\* the comparison of line 196 with the trigger instant resolved in s2
after_resolve(a, s2, t) ==
    [stop |-> IF t < s2.dtwhen[1] THEN "wait" ELSE "fire", s |-> s2,
     resolved |-> a.s.dtwhen = None, compared |-> TRUE] @@ a

\* check, lines 182-197: the trigger instant and the comparison with it
check_compare(a, t) ==
    IF a.stop # "go"
    THEN [resolved |-> FALSE, compared |-> FALSE] @@ a
    ELSE after_resolve(a, resolve_when(a.s, DateOf(num2date(t, 0))), t)

\* the fire of lines 199-230 once the end of session (eos, None when the
\* lookup of line 206 raised) and the additions of the loop (adds, None when
\* line 215 raises) are known
after_lookup(b, again, eos, adds, d, ddate) ==
    LET n == IF again THEN b.lookups + 1 ELSE b.lookups
        s3 == [b.s EXCEPT !.lastwhen = b.s.dwhen]
    IN IF eos = None
       THEN [stop |-> "lookup", s |-> s3, lookups |-> n, adds |-> None] @@ b
       ELSE IF adds = None
       THEN [stop |-> "overflow", s |-> [s3 EXCEPT !.nexteos = eos[1]],
             lookups |-> n, adds |-> None] @@ b
       ELSE [stop |-> "fired", s |-> fire(b.s, d, ddate), lookups |-> n,
             adds |-> adds] @@ b

\* the additions the repeat loop makes from dw with the end of session eos
loop_count(dw, eos, d) ==
    IF p.repeat = 0 THEN Some(0)
    ELSE IF eos = None THEN None
    ELSE repeat_loop_count(dw, eos[1], d, 0)

\* the end of session the fire runs its loop with
fire_eos(b, again, d, ddate, ok) ==
    IF again THEN eos_lookup(b.s, d, ddate, ok) ELSE Some(b.s.nexteos)

\* lines 204-212 for the fire: again is whether d passed the end of session
fire_lookup(b, again, eos, d, ddate) ==
    after_lookup(b, again, eos, loop_count(b.s.dwhen[1], eos, d), d, ddate)

\* check, lines 199-230: the fire
check_fire(b, t, ok) ==
    IF b.stop # "fire"
    THEN [adds |-> None] @@ b
    ELSE fire_lookup(b, p.repeat # 0 /\ num2date(t, 0) > b.s.nexteos,
                     fire_eos(b, p.repeat # 0 /\ num2date(t, 0) > b.s.nexteos,
                              num2date(t, 0), DateOf(num2date(t, 0)), ok),
                     num2date(t, 0), DateOf(num2date(t, 0)))

\* what check returns or raises, of the record of its last stage
check_result(c) ==
    [ret |-> c.stop = "fired",
     raised |-> IF c.stop \in {"lookup", "overflow"} THEN c.stop ELSE "no"] @@ c

\* check(dt) with a feed that answers the call's lookups or not (ok): the
\* timer after the call, the value returned or what was raised, and what
\* the call went through
check_with(s, t, ok) ==
    CHOOSE r \in {check_result(check_fire(b, t, ok)) :
                    b \in {check_compare(a, t) :
                             a \in {check_rollovers(s, t, ok)}}} : TRUE

\* check(dt) with a feed that answers
check(s, t) == check_with(s, t, TRUE)

\* ------------------------------------------------------------ ResetTimer
\* one more setting of the flag
more(n) == IF n < 3 THEN n + 1 ELSE 3

\* daily_reset(), lines 367-370
daily_reset(r) == [r EXCEPT !.timer = Some(TRUE), !.sets = more(@)]

\* live_test_app(), lines 372-411: cycle is the LASTCYCLE and num the CANDLES
\* duration read from the json file, open what market_open() answers
live_test_app(r, cycle, num, open) ==
    LET elapsed == r.now - cycle
        r1 == [r EXCEPT !.lastwhen = Some(elapsed)]
    IN IF open /\ elapsed > cycle_mult * num
       THEN [r1 EXCEPT !.timer = Some(TRUE), !.sets = more(@)]
       ELSE r1

\* schedule.run_pending(), line 415: the jobs of lines 311 and 313 that are
\* due (daily, live) run before check looks at the flag
run_pending(r, daily, live, cycle, num, open) ==
    LET r1 == IF daily THEN daily_reset(r) ELSE r
    IN IF live THEN live_test_app(r1, cycle, num, open) ELSE r1

\* a check that returns True without clearing the flag
reset_check_sticky(r) ==
    IF r.timer = Some(TRUE)
    THEN [r EXCEPT !.ret = "True", !.prevret = r.ret, !.calls = 1 - @,
                   !.burst = r.sets, !.prevburst = r.burst, !.sets = 0]
    ELSE [r EXCEPT !.ret = "False", !.prevret = r.ret, !.calls = 1 - @,
                   !.burst = r.sets, !.prevburst = r.burst]

\* ResetTimer.check(), lines 417-421, after run_pending: None and False are
\* both falsy
reset_check(r) ==
    IF r.timer = Some(TRUE)
    THEN [r EXCEPT !.timer = Some(FALSE), !.ret = "True", !.prevret = r.ret,
                   !.calls = 1 - @, !.burst = r.sets, !.prevburst = r.burst, !.sets = 0]
    ELSE [r EXCEPT !.ret = "False", !.prevret = r.ret, !.calls = 1 - @,
                   !.burst = r.sets, !.prevburst = r.burst]

\* ------------------------------------------------------------ configurations
\* the ascending sequence of a set of numbers
RECURSIVE Sorted(_)
Sorted(S) ==
    IF S = {} THEN <<>>
    ELSE LET m == CHOOSE x \in S : \A y \in S : x <= y
         IN <<m>> \o Sorted(S \ {m})

AbsWhen == {[sym |-> FALSE, v |-> t] : t \in Times}
SymWhen == {[sym |-> TRUE, v |-> c] : c \in {SESSION_TIME, SESSION_START, SESSION_END}}

\* a day filter and its carry flag (the flag is not read with an empty filter)
DayFilters(n) ==
    {<<<<>>, FALSE>>} \cup
    {<<Sorted(S), c>> : S \in (SUBSET (1 .. n)) \ {{}}, c \in BOOLEAN}

NoFeed == [sessionstart |-> 0, sessionend |-> TIME_MAX, tz |-> 0]
Feeds == [sessionstart : {1}, sessionend : Times, tz : TzOffsets]

\* the time sources: none, a timezone, a data feed
Sources ==
    {<<"None", NoFeed>>} \cup
    {<<"tz", [NoFeed EXCEPT !.tz = z]>> : z \in TzOffsets \ {0}} \cup
    {<<"data", f>> : f \in Feeds}

Params(whens, offsets, repeats, mfilters, wfilters, allows, tzs) ==
    {[when |-> w, offset |-> o, repeat |-> r,
      monthdays |-> m[1], monthcarry |-> m[2],
      weekdays |-> k[1], weekcarry |-> k[2],
      allow |-> a, tzdata |-> z] :
        w \in whens, o \in offsets, r \in repeats, m \in mfilters,
        k \in wfilters, a \in allows, z \in tzs}

\* timers without day filters, over every target, offset, repeat and source
TimeConfigs ==
    UNION {{<<q, src[2]>> :
              q \in Params(AbsWhen \cup SymWhen, Offsets, Repeats,
                           {<<<<>>, FALSE>>}, {<<<<>>, FALSE>>}, {None}, {src[1]})} :
           src \in Sources}

\* timers with day filters: every month-day filter alone, every week-day
\* filter alone, and some of both
NoFilter == <<<<>>, FALSE>>
BothMonthdays == {<<<<1, 2>>, FALSE>>, <<<<1, 3>>, TRUE>>, <<<<2>>, TRUE>>}
BothWeekdays == {<<<<1>>, FALSE>>, <<<<2>>, TRUE>>, <<<<1, 2>>, FALSE>>}
FilterPairs ==
    {<<m, NoFilter>> : m \in DayFilters(DaysPerMonth)} \cup
    {<<NoFilter, k>> : k \in DayFilters(DaysPerWeek)} \cup
    (BothMonthdays \X BothWeekdays)
FilterConfigs ==
    UNION {{<<q, NoFeed>> :
              q \in Params({[sym |-> FALSE, v |-> 1]}, {0}, {0},
                           {pr[1]}, {pr[2]}, {None}, {"None"})} :
           pr \in FilterPairs}

\* timers that can veto a date, over targets, offsets, repeats and sources
VetoMonthdays == {<<<<>>, FALSE>>, <<<<2>>, FALSE>>, <<<<1>>, TRUE>>}
VetoWeekdays == {<<<<>>, FALSE>>, <<<<1>>, FALSE>>}
VetoAllows == {None, Some({x \in Dates : x % 2 = 1})}
VetoSources == {<<"None", NoFeed>>, <<"data", [NoFeed EXCEPT !.sessionend = 1]>>}
VetoConfigs ==
    UNION {{<<q, src[2]>> :
              q \in Params({[sym |-> FALSE, v |-> t] : t \in {0, TIME_MAX}},
                           Offsets, {0, 1}, VetoMonthdays, VetoWeekdays,
                           VetoAllows, {src[1]})} :
           src \in VetoSources}

\* nothing written down yet by the traced driver
HistInit ==
    [lookups |-> 0, needed |-> FALSE, down |-> FALSE, raised |-> "no",
     mevals |-> 0, wevals |-> 0, aevals |-> 0,
     mcarry |-> FALSE, wcarry |-> FALSE, gaveup |-> "no"]

\* ResetTimer.__init__, lines 297-308: the reset flag and lastwhen start as
\* None.  now is the wall clock; ret and prevret are what the last two calls
\* of check returned, calls their number modulo 2, sets the number of times
\* the flag was set since the last call of check that returned True, and
\* burst and prevburst what that number was at the last two calls of check
\* (from 3 on, 3)
RtInit ==
    [timer |-> None, lastwhen |-> None, now |-> 0,
     ret |-> "none", prevret |-> "none", calls |-> 0, sets |-> 0,
     burst |-> 0, prevburst |-> 0]

\* timers on feeds that may fail to answer, with repeats of either sign
AnyRepeats == {0, 1, -1}
RaisingSources ==
    {<<"None", NoFeed>>,
     <<"data", [NoFeed EXCEPT !.sessionend = 1]>>,
     <<"data", [NoFeed EXCEPT !.tz = 1]>>}
RaisingConfigs ==
    UNION {{<<q, src[2]>> :
              q \in Params(AbsWhen, {0}, AnyRepeats,
                           {NoFilter}, {NoFilter}, {None}, {src[1]})} :
           src \in RaisingSources}

\* repeating timers, over every target, offset and source
RepeatConfigs ==
    UNION {{<<q, src[2]>> :
              q \in Params(AbsWhen, Offsets, Repeats \ {0},
                           {NoFilter}, {NoFilter}, {None}, {src[1]})} :
           src \in Sources}

\* timers with and without repeat, over every target and source
LookupConfigs ==
    UNION {{<<q, src[2]>> :
              q \in Params(AbsWhen, {0}, Repeats,
                           {NoFilter}, {NoFilter}, {None}, {src[1]})} :
           src \in Sources}

InitWith(configs) ==
    /\ \E c \in configs : p = c[1] /\ feed = c[2]
    /\ hist = HistInit /\ rt = RtInit
    /\ pc = "new"
    /\ rstwhen = 0 /\ tzdata = "None" /\ isdata = FALSE
    /\ when = 0 /\ dtwhen = None /\ dwhen = None
    /\ lastcall = DatetimeMin /\ nexteos = DatetimeMin /\ curdate = DateMin
    /\ curmonth = -1 /\ monthmask = <<>>
    /\ curweek = -1 /\ weekmask = <<>>
    /\ lastwhen = None
    /\ dt = -1 /\ ret = "none"
    /\ obs = [fired |-> <<>>, veto |-> DateMin, whenfor |-> None, cmpfor |-> None,
              mret |-> None, wret |-> None, aret |-> None, again |-> FALSE,
              maxmark |-> DatetimeMin, resets |-> 0, rebuilds |-> 0]

Init == InitWith(TimeConfigs)
InitFilter == InitWith(FilterConfigs)
InitVeto == InitWith(VetoConfigs)
InitRaising == InitWith(RaisingConfigs)
InitRepeat == InitWith(RepeatConfigs)
InitLookup == InitWith(LookupConfigs)

\* ------------------------------------------------------------ operations
\* a start that takes the code SESSION_TIME for the time of day 0
start_rstwhen_lenient(src) ==
    IF ~p.when.sym THEN Some(p.when.v)
    ELSE IF p.when.v = SESSION_TIME THEN Some(0)
    ELSE IF src # "data" THEN None
    ELSE IF p.when.v = SESSION_START THEN Some(feed.sessionstart)
    ELSE Some(feed.sessionend)

\* start(data): what the target resolves to, None when start raises (at
\* lines 79 and 81 for a time source without session times, at line 96 for
\* SESSION_TIME, which leaves _rstwhen unset)
start_rstwhen(src) ==
    IF ~p.when.sym THEN Some(p.when.v)
    ELSE IF src # "data" THEN None
    ELSE IF p.when.v = SESSION_START THEN Some(feed.sessionstart)
    ELSE IF p.when.v = SESSION_END THEN Some(feed.sessionend)
    ELSE None

start_tzdata ==
    IF ~p.when.sym THEN p.tzdata
    ELSE IF p.tzdata = "None" THEN "data" ELSE p.tzdata

Start ==
    /\ pc = "new"
    /\ LET src == start_tzdata
           rw == start_rstwhen(src)
       IN /\ tzdata' = src
          /\ IF rw = None
             THEN /\ pc' = "failed"
                  /\ isdata' = IF p.when.v = SESSION_TIME THEN src = "data"
                               ELSE isdata
                  /\ UNCHANGED <<rstwhen, when, dtwhen, dwhen, lastcall,
                                 nexteos, curdate, curmonth, monthmask, curweek,
                                 weekmask>>
             ELSE /\ pc' = "started"
                  /\ rstwhen' = rw[1]
                  /\ isdata' = (src = "data")
                  /\ when' = rw[1] /\ dtwhen' = None /\ dwhen' = None
                  /\ lastcall' = DatetimeMin
                  /\ nexteos' = DatetimeMin
                  /\ curdate' = DateMin
                  /\ curmonth' = -1 /\ monthmask' = <<>>
                  /\ curweek' = -1 /\ weekmask' = <<>>
    /\ UNCHANGED <<p, feed, lastwhen, dt, ret, obs, hist, rt>>

\* what a check call adds to the observations
observe(r, t) ==
    LET ddate == DateOf(t)
        before == IF dt >= 0 /\ DateOf(dt) = ddate THEN obs.fired ELSE <<>>
    IN [fired |-> IF r.ret THEN Append(before, r.s.lastwhen[1]) ELSE before,
        veto |-> IF r.mret # None /\ ~r.ret /\ ~r.compared THEN ddate ELSE obs.veto,
        whenfor |-> IF r.s.dtwhen = None THEN None
                    ELSE IF r.ret THEN Some(DateOf(r.s.dtwhen[1]))
                    ELSE IF r.resolved THEN Some(ddate) ELSE obs.whenfor,
        cmpfor |-> IF ~r.compared THEN None
                   ELSE IF r.resolved THEN Some(ddate) ELSE obs.whenfor,
        mret |-> r.mret, wret |-> r.wret, aret |-> r.aret,
        again |-> (t = dt /\ ret = "True"),
        maxmark |-> IF r.s.lastcall > obs.maxmark THEN r.s.lastcall ELSE obs.maxmark,
        resets |-> IF lastcall # DatetimeMin /\ r.s.lastcall # lastcall
                   THEN 1 ELSE obs.resets,
        rebuilds |-> IF r.s.curmonth # curmonth /\ obs.rebuilds < 2
                     THEN obs.rebuilds + 1 ELSE obs.rebuilds]

\* the timer and the observations after a check(dt) call that came to r
Apply(r, t) ==
    /\ rstwhen' = r.s.rstwhen /\ tzdata' = r.s.tzdata /\ isdata' = r.s.isdata
    /\ when' = r.s.when /\ dtwhen' = r.s.dtwhen /\ dwhen' = r.s.dwhen
    /\ lastcall' = r.s.lastcall /\ nexteos' = r.s.nexteos
    /\ curdate' = r.s.curdate
    /\ curmonth' = r.s.curmonth /\ monthmask' = r.s.monthmask
    /\ curweek' = r.s.curweek /\ weekmask' = r.s.weekmask
    /\ lastwhen' = r.s.lastwhen
    /\ obs' = observe(r, t)
    /\ dt' = t
    /\ UNCHANGED <<p, feed, pc, rt>>

\* a call of check(dt)
Check(t) ==
    /\ pc = "started"
    /\ \E r \in {check(Self, t)} :
          /\ Apply(r, t)
          /\ ret' = IF r.ret THEN "True" ELSE "False"
    /\ UNCHANGED hist

\* what the traced driver writes down about a check call: the lookups of the
\* call, whether the feed was down and what the call raised, the filter
\* evaluations of the date so far, the carry flags, and whether the repeats
\* of this date ("today") or of the date observed before it were given up
\* ("prev", or "prev2" when more than one fire preceded)
trace(r, t, ok) ==
    LET ddate == DateOf(t)
        newdate == dt < 0 \/ DateOf(dt) # ddate
        count(n, opt) ==
            LET m == (IF newdate THEN 0 ELSE n) + (IF opt # None THEN 1 ELSE 0)
            IN IF m > 2 THEN 2 ELSE m
        gave == IF ~newdate THEN hist.gaveup
                ELSE IF hist.gaveup # "today" THEN "no"
                ELSE IF Len(obs.fired) > 1 THEN "prev2" ELSE "prev"
    IN [lookups |-> r.lookups, needed |-> r.needed,
        down |-> ~ok, raised |-> r.raised,
        mevals |-> count(hist.mevals, r.mret),
        wevals |-> count(hist.wevals, r.wret),
        aevals |-> count(hist.aevals, r.aret),
        mcarry |-> r.mcarry, wcarry |-> r.wcarry,
        gaveup |-> IF r.ret /\ p.repeat # 0 /\ r.s.dtwhen = None
                   THEN "today" ELSE gave]

\* a call of check(dt) by a driver that writes down what the call did; the
\* feed answers the call's lookups when ok
CheckRaising(t, ok) ==
    /\ pc = "started"
    /\ \E r \in {check_with(Self, t, ok)} :
          /\ Apply(r, t)
          /\ ret' = IF r.raised # "no" THEN "raised"
                    ELSE IF r.ret THEN "True" ELSE "False"
          /\ hist' = trace(r, t, ok)

\* the driving loop samples the clock: timestamps never decrease
Sample == \E t \in 0 .. MaxT : t >= dt /\ Check(t)

\* a driver that may also go back to an earlier timestamp of the same date
SampleAnyOrder ==
    \E t \in 0 .. MaxT : (t >= dt \/ DateOf(t) = DateOf(dt)) /\ Check(t)

\* the traced driver with a feed that always answers, and with one that may
\* fail to
SampleTraced == \E t \in 0 .. MaxT : t >= dt /\ CheckRaising(t, TRUE)
SampleRaising ==
    \E t \in 0 .. MaxT, ok \in BOOLEAN : t >= dt /\ CheckRaising(t, ok)

Next == Start \/ Sample
NextUnordered == Start \/ SampleAnyOrder
NextTraced == Start \/ SampleTraced
NextRaising == Start \/ SampleRaising

Spec == Init /\ [][Next]_vars
SpecFilter == InitFilter /\ [][Next]_vars
SpecVeto == InitVeto /\ [][Next]_vars
SpecUnordered == Init /\ [][NextUnordered]_vars
SpecRaising == InitRaising /\ [][NextRaising]_vars
SpecRepeat == InitRepeat /\ [][NextTraced]_vars
SpecLookup == InitLookup /\ [][NextTraced]_vars
SpecVetoTraced == InitVeto /\ [][NextTraced]_vars
SpecFilterTraced == InitFilter /\ [][NextTraced]_vars

\* ------------------------------------------------------------ ResetTimer
\* the Timer is not touched by the ResetTimer
timer_vars == <<p, feed, pc, rstwhen, tzdata, isdata, when, dtwhen, dwhen,
                lastcall, nexteos, curdate, curmonth, monthmask, curweek,
                weekmask, lastwhen, dt, ret, obs, hist>>

\* what the json file and the market calendar may answer
Candles == {1, 2}

\* the wall clock advances
Tick ==
    /\ rt.now < MaxNow
    /\ rt' = [rt EXCEPT !.now = @ + 1]
    /\ UNCHANGED timer_vars

\* the scheduler runs daily_reset outside of check
DailyReset ==
    /\ rt' = daily_reset(rt)
    /\ UNCHANGED timer_vars

\* the scheduler runs live_test_app outside of check
LiveTestApp ==
    /\ \E cycle \in 0 .. rt.now, num \in Candles, open \in BOOLEAN :
          rt' = live_test_app(rt, cycle, num, open)
    /\ UNCHANGED timer_vars

\* a call of ResetTimer.check(), with the jobs that are due
ResetCheck ==
    /\ \E daily \in BOOLEAN, live \in BOOLEAN, cycle \in 0 .. rt.now,
          num \in Candles, open \in BOOLEAN :
          rt' = reset_check(run_pending(rt, daily, live, cycle, num, open))
    /\ UNCHANGED timer_vars

NextReset == Tick \/ DailyReset \/ LiveTestApp \/ ResetCheck
\* the Timer next to the ResetTimer: one that is never started
ResetConfigs ==
    {<<q, NoFeed>> :
        q \in Params({[sym |-> FALSE, v |-> 0]}, {0}, {0},
                     {NoFilter}, {NoFilter}, {None}, {"None"})}
InitReset == InitWith(ResetConfigs)
SpecReset == InitReset /\ [][NextReset]_vars

TypeOK ==
    /\ pc \in {"new", "started", "failed"}
    /\ ret \in {"none", "True", "False", "raised"}
    /\ dt \in -1 .. MaxT

\* ------------------------------------------------------------ properties
Today == DateOf(dt)
\* the naive datetime of the configured target on a date, and its instant
TargetOn(ddate) == combine(ddate, rstwhen) + p.offset
TargetInstant(ddate) == date2num(TargetOn(ddate), TzOff(Self))
Last(q) == q[Len(q)]

\* C1: with repeat zero, check returns True at most once among the calls
\* whose timestamps fall on one calendar date, in whatever order they come.
C1_AtMostOncePerDate ==
    (pc = "started" /\ p.repeat = 0) => Len(obs.fired) <= 1

\* a call on a date that had already fired was answered False at line 159
C1_Witness ==
    /\ pc = "started" /\ p.repeat = 0
    /\ Len(obs.fired) = 1 /\ ret = "False" /\ obs.cmpfor = None
    /\ dt >= TargetInstant(Today)

\* C2: with repeat r > 0 the instants fired on one date are target,
\* target + r, target + 2r, ..., each strictly before the end of session E,
\* and none of them (the original target included) fires twice.
C2_RepeatBound ==
    (pc = "started" /\ p.repeat > 0) =>
        /\ \A i \in 1 .. Len(obs.fired) :
              /\ \E k \in 0 .. TicksPerDay :
                    obs.fired[i] = TargetOn(Today) + k * p.repeat
              /\ \A j \in 1 .. (i - 1) : obs.fired[j] < obs.fired[i]
        /\ (ret = "True" => Last(obs.fired) < nexteos)

Range(q) == {q[i] : i \in 1 .. Len(q)}
\* the entries of an ascending sequence before, and after, a day
Before(q, day) == Cardinality({i \in 1 .. Len(q) : q[i] < day})
After(q, day) == SelectSeq(q, LAMBDA x : x > day)
IsSuffix(a, b) == \E k \in 0 .. Len(b) : a = SubSeq(b, k + 1, Len(b))

\* C3: carry enabled, the first date observed in a month lies after a
\* configured day and is not configured itself: the month filter passes, and
\* the mask is left with exactly the configured days later than that date.
C3_CarryForward ==
    [][(/\ pc = "started" /\ p.monthcarry
        /\ obs'.mret # None
        /\ MonthOf(DateOf(dt')) # curmonth
        /\ DayOf(DateOf(dt')) \notin Range(p.monthdays)
        /\ Before(p.monthdays, DayOf(DateOf(dt'))) > 0)
       => (/\ obs'.mret = Some(TRUE)
           /\ monthmask' = After(p.monthdays, DayOf(DateOf(dt'))))]_vars

\* C4: carry disabled: the month filter, and the week filter, pass on a date
\* if and only if the date's day number is an entry of the configured filter.
C4_NoCarryExactMatch ==
    pc = "started" =>
        /\ (obs.mret # None /\ truthy(p.monthdays) /\ ~p.monthcarry)
              => (obs.mret[1] <=> DayOf(Today) \in Range(p.monthdays))
        /\ (obs.wret # None /\ truthy(p.weekdays) /\ ~p.weekcarry)
              => (obs.wret[1] <=> WeekdayOf(Today) \in Range(p.weekdays))

\* C5: once the month filter, the week filter or the allow predicate rejected
\* a date, every check on that date returns False.
C5_VetoPersists ==
    (pc = "started" /\ dt >= 0 /\ obs.veto = Today) => ret = "False"

\* a later call on a vetoed date, at or after the target, of a repeating timer
C5_Witness ==
    /\ pc = "started" /\ dt >= 0 /\ obs.veto = Today
    /\ obs.mret = None /\ ret = "False"
    /\ dt >= TargetInstant(Today) /\ p.repeat > 0 /\ p.offset > 0

\* C6: on a date that passes the filters, check returns False before the
\* instant (target + offset) of that date, and True for the first timestamp
\* sampled at or after it.
C6_OffsetArrival ==
    (pc = "started" /\ dt >= 0) =>
        /\ ret = "True" => dt >= TargetInstant(Today)
        /\ (ret = "False" /\ obs.fired = <<>> /\ obs.veto # Today)
              => dt < TargetInstant(Today)

\* C7: a check with the timestamp of the check that just returned True
\* returns False and changes nothing of the evaluation state.
C7_IdempotentResample ==
    [][(pc = "started" /\ ret = "True" /\ dt' = dt)
       => (/\ ret' = "False"
           /\ UNCHANGED <<when, dtwhen, dwhen, lastcall, nexteos, curdate,
                          curmonth, monthmask, curweek, weekmask, lastwhen>>)]_vars

\* the timestamp that fired was sampled again, with the next repeat pending
C7_Witness ==
    /\ pc = "started" /\ obs.again /\ ret = "False"
    /\ p.repeat > 0 /\ dtwhen # None

\* C8: a mask is a tail of its configured filter (hence ascending); while
\* the period key stays, a check only removes entries from its front; when
\* the key of the evaluated date differs from the tracked key, the mask is
\* the full filter again, less the front entries this evaluation consumed
\* (the days before today's and at most one more).
MaskStep(evaluated, newkey, mask, mask2, full, day) ==
    /\ (evaluated /\ newkey) =>
          \E k \in Before(full, day) .. (Before(full, day) + 1) :
              mask2 = SubSeq(full, k + 1, Len(full))
    /\ ~(evaluated /\ newkey) => IsSuffix(mask2, mask)

C8_MonotonicMasks ==
    /\ [](IsSuffix(monthmask, p.monthdays) /\ IsSuffix(weekmask, p.weekdays))
    /\ [][pc = "started" =>
            /\ MaskStep(obs'.mret # None /\ truthy(p.monthdays),
                        MonthOf(DateOf(dt')) # curmonth, monthmask, monthmask',
                        p.monthdays, DayOf(DateOf(dt')))
            /\ MaskStep(obs'.wret # None /\ truthy(p.weekdays),
                        WeekOf(DateOf(dt')) # curweek, weekmask, weekmask',
                        p.weekdays, WeekdayOf(DateOf(dt')))]_vars

\* the month mask was rebuilt at a second month change and consumed again
C8_Witness ==
    /\ pc = "started" /\ obs.mret # None /\ obs.rebuilds = 2
    /\ truthy(monthmask) /\ Len(monthmask) < Len(p.monthdays)
    /\ truthy(p.weekdays) /\ IsSuffix(weekmask, p.weekdays)

\* C9 as stated: the stored last-fired date is never replaced by an earlier
\* value.
C9_NeverBackward == [][lastcall' >= lastcall]_vars

\* C9 as the code has it: _lastcall is only ever replaced by the "never"
\* sentinel (at a session rollover) or by the date of the current sample,
\* which is not earlier than any date it held before.
C9_BackOnlyToNever ==
    [][lastcall' # lastcall =>
          \/ lastcall' = DatetimeMin
          \/ (lastcall' = DateOf(dt') /\ lastcall' >= obs.maxmark)]_vars

\* a session rollover put the sentinel back after a date had been stored,
\* and a later date was stored after that
C9_Witness ==
    /\ pc = "started" /\ lastcall > 0 /\ lastcall = Today
    /\ obs.maxmark = lastcall /\ obs.resets > 0

\* C10: whenever check compares the timestamp against the cached trigger
\* instant, that instant was resolved for the timestamp's own date.
C10_CacheForToday ==
    (pc = "started" /\ obs.cmpfor # None) => obs.cmpfor[1] = Today

\* C11: when the feed's session-end lookup fails during check, check raises
\* instead of returning a boolean, the cached end of session keeps its value
\* and the date is not marked as fired; check raises for a lookup in no
\* other case.
C11_LookupFailurePropagates ==
    [][pc = "started" =>
          /\ (isdata /\ hist'.down /\ hist'.lookups > 0)
                => (/\ ret' = "raised" /\ hist'.raised = "lookup"
                    /\ nexteos' = nexteos
                    /\ lastcall' # DateOf(dt')
                    /\ obs'.fired = IF DateOf(dt') = DateOf(dt) /\ dt >= 0
                                    THEN obs.fired ELSE <<>>)
          /\ hist'.raised = "lookup"
                => (isdata /\ hist'.down /\ hist'.needed)]_vars

\* the feed failed at a session rollover, with a repeat of the timer pending
C11_Witness ==
    /\ pc = "started" /\ ret = "raised" /\ hist.raised = "lookup"
    /\ p.repeat > 0 /\ dtwhen # None
    /\ nexteos # DatetimeMin /\ dt > nexteos

\* C12: start fails, and no check follows, when the target is an integer
\* code and the time source has no session times, and for the code
\* SESSION_TIME with any time source; a started timer has a time of day as
\* its reset target: the configured one, or the feed's session start or end.
C12_StartNeedsResolvedTarget ==
    pc # "new" =>
        /\ (p.when.sym /\ (tzdata # "data" \/ p.when.v = SESSION_TIME))
              => (pc = "failed" /\ dt = -1 /\ ret = "none")
        /\ pc = "started"
              => (/\ rstwhen \in Times /\ when = rstwhen
                  /\ rstwhen = IF ~p.when.sym THEN p.when.v
                               ELSE IF p.when.v = SESSION_START
                               THEN feed.sessionstart ELSE feed.sessionend)

\* start failed for SESSION_TIME on a data feed, past line 83
C12_Witness ==
    /\ pc = "failed" /\ p.when.sym /\ p.when.v = SESSION_TIME
    /\ tzdata = "data" /\ isdata

\* C13: with non-decreasing timestamps the month filter is evaluated exactly
\* once on every date observed; the week filter is evaluated, and its mask
\* and week key change, only in a call where the month filter passed, and the
\* allow predicate is called only where both passed; each at most once on a
\* date.  A call that does not evaluate a filter leaves its mask and key.
C13_FiltersOncePerDate ==
    /\ []((pc = "started" /\ dt >= 0) =>
            /\ hist.mevals = 1 /\ hist.wevals <= 1 /\ hist.aevals <= 1
            /\ obs.wret # None => obs.mret = Some(TRUE)
            /\ obs.aret # None => (obs.mret = Some(TRUE) /\ obs.wret = Some(TRUE)))
    /\ [][pc = "started" =>
            /\ obs'.mret = None => UNCHANGED <<curmonth, monthmask>>
            /\ obs'.wret = None => UNCHANGED <<curweek, weekmask>>]_vars

\* a later call on a date whose first call went through both filters and the
\* allow predicate
C13_Witness ==
    /\ pc = "started" /\ dt >= 0 /\ obs.mret = None
    /\ hist.mevals = 1 /\ hist.wevals = 1 /\ hist.aevals = 1
    /\ truthy(p.monthdays) /\ truthy(p.weekdays) /\ curdate > 0

\* C14: when the period key of the evaluated date differs from the tracked
\* one, the filter's carry flag is set if and only if carry is enabled and
\* the mask of the old period still held an entry or an entry of the filter
\* lies before today; with an empty old mask, as right after start, the
\* period change brings no carry.
CarryStep(evaluated, newkey, carry, enabled, mask, full, day) ==
    (evaluated /\ truthy(full) /\ newkey) =>
        (carry <=> (enabled /\ (truthy(mask) \/ Before(full, day) > 0)))

C14_CarryAcrossPeriods ==
    [][pc = "started" =>
          /\ CarryStep(obs'.mret # None, MonthOf(DateOf(dt')) # curmonth,
                       hist'.mcarry, p.monthcarry, monthmask, p.monthdays,
                       DayOf(DateOf(dt')))
          /\ CarryStep(obs'.wret # None, WeekOf(DateOf(dt')) # curweek,
                       hist'.wcarry, p.weekcarry, weekmask, p.weekdays,
                       WeekdayOf(DateOf(dt')))]_vars

\* the month filter passed by the carry of an old month's unconsumed entry
\* alone: no entry of the filter lies before today, and today is no entry
C14_Witness ==
    /\ pc = "started" /\ obs.mret = Some(TRUE) /\ hist.mcarry
    /\ truthy(p.monthdays) /\ Before(p.monthdays, DayOf(Today)) = 0
    /\ DayOf(Today) \notin Range(p.monthdays)

\* C15: when check fires at the sample time t with repeat r > 0 and the
\* session has not ended, the trigger instant cached by the call is the
\* least instant (fired target + k*r), k >= 1, strictly greater than t, and
\* the sampled date is not marked as fired.
C15_RepeatAdvancement ==
    [][(pc = "started" /\ ret' = "True" /\ p.repeat > 0 /\ dtwhen' # None) =>
          LET target == date2num(lastwhen'[1], TzOff(Self))
          IN /\ \E k \in 1 .. (MaxT + 1) :
                   /\ dtwhen'[1] = target + k * p.repeat
                   /\ dtwhen'[1] > dt'
                   /\ target + (k - 1) * p.repeat <= dt'
             /\ lastcall' # DateOf(dt')]_vars

\* C16: when the repeat advancement passes the end of session, check marks
\* the date as fired, puts the target back to the configured one and clears
\* the cached trigger instant; no later check on that date returns True; and
\* the first fire of the next date observed is the configured target plus
\* offset of that date, whatever number of repeats fired before.
C16_NoDriftAfterRepeats ==
    [][pc = "started" =>
          /\ (ret' = "True" /\ p.repeat > 0 /\ dtwhen' = None)
                => (/\ lastcall' = DateOf(dt') /\ when' = rstwhen
                    /\ dwhen' = None /\ hist'.gaveup = "today")
          /\ (hist.gaveup = "today" /\ DateOf(dt') = DateOf(dt))
                => ret' = "False"
          /\ (hist'.gaveup \in {"prev", "prev2"} /\ ret' = "True"
                 /\ Len(obs'.fired) = 1)
                => (/\ lastwhen' = Some(TargetOn(DateOf(dt')))
                    /\ dt' >= TargetInstant(DateOf(dt')))]_vars

\* the first fire of a date, the repeats of the date before having been
\* given up after at least one of them fired, and a timer with an offset
C16_Witness ==
    /\ pc = "started" /\ ret = "True" /\ hist.gaveup = "prev2"
    /\ Len(obs.fired) = 1 /\ p.repeat > 0 /\ p.offset > 0
    /\ dtwhen # None

\* C17: check computes or asks for the end of session only when the sampled
\* timestamp is past the cached one, at most once in a call, and the answer
\* covers the sample, so that no call asks again before the timestamps pass
\* it; a call that does not ask leaves the cached end of session unchanged.
C17_BoundaryCached ==
    [][pc = "started" =>
          /\ hist'.lookups <= 1
          /\ hist'.lookups = 1 => (dt' > nexteos /\ nexteos' >= dt')
          /\ hist'.lookups = 0 => (dt' <= nexteos \/ lastcall = DateOf(dt'))
          /\ hist'.lookups = 0 => nexteos' = nexteos]_vars

\* a repeat of a timer on a data feed fired inside the session the feed had
\* announced at an earlier rollover, without a lookup
C17_Witness ==
    /\ pc = "started" /\ isdata /\ ret = "True" /\ p.repeat > 0
    /\ hist.lookups = 0 /\ Len(obs.fired) > 1
    /\ DateOf(nexteos) > 0 /\ dt <= nexteos

\* C18: for every non-zero repeat interval the repeat loop of check breaks
\* after finitely many additions: a call of check that the feed answers
\* returns True or False.
C18_RepeatLoopTerminates ==
    (pc = "started" /\ p.repeat # 0 /\ dt >= 0 /\ hist.raised # "lookup")
        => ret \in {"True", "False"}

\* C19: ResetTimer.check returns True if and only if the reset flag was set,
\* by daily_reset or by live_test_app, since the last check that returned
\* True; it clears the flag when it returns True; however many times the
\* flag was set, one check returns True and the next, with no new setting,
\* returns False.
C19_OneShotLatch ==
    /\ [](rt.timer = Some(TRUE) <=> rt.sets > 0)
    /\ [][rt'.calls # rt.calls =>
            /\ rt'.ret = "True" <=> rt'.burst > 0
            /\ rt'.ret = "True" => (rt'.timer = Some(FALSE) /\ rt'.sets = 0)
            /\ rt'.ret = "False" => rt'.timer = rt.timer]_vars

\* the flag was set three times or more, one check returned True and the
\* check after it returned False
C19_Witness ==
    /\ rt.prevret = "True" /\ rt.prevburst = 3
    /\ rt.ret = "False" /\ rt.burst = 0
    /\ rt.timer = Some(FALSE) /\ rt.lastwhen # None

====
